---- MODULE Spec2Model ----
(***************************************************************************)
(* Model of verify-port-accessibility.py: a TCP reachability auditor that  *)
(* probes every destination from every source host (fabric fan-out),       *)
(* classifies the ncat output, appends the records to a results file and   *)
(* keeps a ledger of already tested sources.                               *)
(*                                                                         *)
(* Strings are modelled as sequences of tokens.  A token is a chunk of     *)
(* text that the program never splits: a host name, one of the ncat        *)
(* marker sentences, the noise fragment, other text ("x"), a blank (" ")   *)
(* or a newline ("\n").  Concatenation of strings is \o.                   *)
(* Python's None is the empty tuple <<>>, a non-None scalar v is <<v>>     *)
(* where a field may hold either.                                          *)
(***************************************************************************)
EXTENDS Integers, Sequences, FiniteSets, TLC

VARIABLES
    sources_file,           \* args.sources_file: its lines, without the line ends
    destinations,           \* the destinations loaded from args.destinations_file
    ledger_file,            \* args.already_tested_sources_file: its lines
    results_file,           \* args.results_file: its rows
    pc,                     \* where the top-level script is
    now,                    \* what time.time() returns
    already_tested_sources, \* the set loaded from the ledger file
    sources_to_use,         \* the dispatch list
    runner,                 \* per dispatched host: the state of its dests_access_test_via_fabric task
    result_dict,            \* what fabric's execute() returned, keyed on source
    todo,                   \* keys of result_dict the post-processing loop has not visited yet
    results,                \* the result list dests_access_test_for_sources builds
    exit_code,              \* None while the process runs, then its exit code
    world,                  \* environment: the raw probe outcomes the network can show
    hist,                   \* history: what the files held when the run started, how runs ended
    cl_in,                  \* classifier harness: the (return_code, stdouterr_text) under test
    cl_out,                 \* classifier harness: what the classification returned or raised
    attempt                 \* timed task: the probe call in progress and the pending SIGALRM

vars == <<sources_file, destinations, ledger_file, results_file, pc, now,
          already_tested_sources, sources_to_use, runner, result_dict, todo, results,
          exit_code, world, hist, cl_in, cl_out, attempt>>

(***************************************************************************)
(* Bounds of the model                                                     *)
(***************************************************************************)
MaxTextLen == 5     \* tokens in one probe output
MaxSources == 2     \* lines in the sources file
MaxDests == 2       \* destinations
MaxRuns == 2        \* runs of the script over the same files
MaxElapsed == 18    \* seconds a probe call is followed while it blocks

(***************************************************************************)
(* Program constants                                                       *)
(***************************************************************************)
env_timeout == 3
access_check_connection_timeout == 2
ncat_timeout == 4 + access_check_connection_timeout
\* mutant: the whole-attempt timeout forgets the shell-command timeout
overall_check_timeout_short == env_timeout + 7
overall_check_timeout == env_timeout + 7 + ncat_timeout

(***************************************************************************)
(* Text helpers                                                            *)
(***************************************************************************)
NL == "\n"
BLANK == " "
Whitespace == {BLANK, NL}

\* the three marker categories (two spellings of the timeout marker) and the noise fragment
MARK_TIMEOUT == "Ncat: Connection timed out."
MARK_OP_TIMEOUT == "Ncat: Operation timed out."
MARK_REFUSED == "Ncat: Connection refused."
MARK_IDLE == "Ncat: Idle timeout expired (5 ms)."
NOISE == "id: cannot find"
TEXT == "x"

None == <<>>

\* str.rstrip(): drop trailing whitespace
RECURSIVE rstrip(_)
rstrip(s) ==
    IF s = <<>> THEN s
    ELSE IF s[Len(s)] \in Whitespace THEN rstrip(SubSeq(s, 1, Len(s) - 1))
    ELSE s

\* str.lstrip(): drop leading whitespace
RECURSIVE lstrip(_)
lstrip(s) ==
    IF s = <<>> THEN s
    ELSE IF s[1] \in Whitespace THEN lstrip(Tail(s))
    ELSE s

\* index of the first newline of s, 0 when there is none
FirstNL(s) ==
    IF \E i \in 1..Len(s) : s[i] = NL
    THEN CHOOSE i \in 1..Len(s) : s[i] = NL /\ \A j \in 1..(i - 1) : s[j] # NL
    ELSE 0

\* iterating a StringIO: the lines of the text, each with its line end kept
RECURSIVE StringIO(_)
StringIO(text) ==
    IF text = <<>> THEN <<>>
    ELSE LET k == FirstNL(text)
         IN  IF k = 0 THEN <<text>>
             ELSE <<SubSeq(text, 1, k)>> \o StringIO(SubSeq(text, k + 1, Len(text)))

\* "sub in line" for the one-token fragment sub
Contains(line, sub) == \E i \in 1..Len(line) : line[i] = sub

\* mutant: the loop stops at the first noise line instead of skipping it
RECURSIVE SelectLinesStop(_)
SelectLinesStop(ls) ==
    IF ls = <<>> THEN <<>>
    ELSE LET line == rstrip(Head(ls))
         IN  IF ~Contains(line, NOISE) THEN <<line>> \o SelectLinesStop(Tail(ls)) ELSE <<>>

RECURSIVE SelectLines(_)
SelectLines(ls) ==
    IF ls = <<>> THEN <<>>
    ELSE LET line == rstrip(Head(ls))
         IN  (IF ~Contains(line, NOISE) THEN <<line>> ELSE <<>>) \o SelectLines(Tail(ls))

stdout_lines_without_noise(stdouterr_text) == SelectLines(StringIO(stdouterr_text))

\* mutant: a marker found anywhere in a line counts
first_str_match_substring(stdouterr_text, str) ==
    LET lines == stdout_lines_without_noise(stdouterr_text)
    IN  \E i \in 1..Len(lines) : Contains(lines[i], str)

first_str_match_in_stdout_lines(stdouterr_text, str) ==
    LET lines == stdout_lines_without_noise(stdouterr_text)
    IN  \E i \in 1..Len(lines) : rstrip(lines[i]) = <<str>>

(***************************************************************************)
(* verify_via_fabric_source_can_connect_to_port, lines 99-116: what the    *)
(* probe call returns or raises once return_code and stdouterr_text are    *)
(* known.                                                                  *)
(***************************************************************************)
\* "%d" % n, str(n): decimal rendering of the integers the model uses
str(n) ==
    CASE n = -1 -> "-1" [] n = 0 -> "0" [] n = 1 -> "1" [] n = 2 -> "2" [] n = 3 -> "3"
      [] n = 4 -> "4" [] n = 5 -> "5" [] n = 6 -> "6" [] n = 80 -> "80" [] n = 443 -> "443"
      [] OTHER -> "n"

check_command(ip_addr, port) ==
    <<"ncat ">> \o ip_addr \o <<BLANK, str(port), " -i 5ms -w ",
                                 str(access_check_connection_timeout), "s --send-only">>

Return(v) == [kind |-> "return", exc |-> "", val |-> v, msg |-> <<>>]
Raise(e, m) == [kind |-> "raise", exc |-> e, val |-> <<>>, msg |-> m]

classify_output(ip_addr, port, return_code, stdouterr_text) ==
    IF return_code = 0
    THEN Raise("RuntimeError",
               <<"got zero exit code from running '">> \o check_command(ip_addr, port)
                   \o <<"': ">> \o stdouterr_text)
    ELSE LET connect_failed_timeout ==
                 \/ first_str_match_in_stdout_lines(stdouterr_text, MARK_TIMEOUT)
                 \/ first_str_match_in_stdout_lines(stdouterr_text, MARK_OP_TIMEOUT)
             connect_failed_refused ==
                 first_str_match_in_stdout_lines(stdouterr_text, MARK_REFUSED)
             connect_succeeded ==
                 first_str_match_in_stdout_lines(stdouterr_text, MARK_IDLE)
         IN  IF connect_succeeded /\ ~connect_failed_timeout /\ ~connect_failed_refused
             THEN Return(<<TRUE, None>>)
             ELSE IF connect_failed_timeout /\ ~connect_succeeded /\ ~connect_failed_refused
             THEN Return(<<FALSE, <<"connection timeout">> >>)
             ELSE IF connect_failed_refused /\ ~connect_succeeded /\ ~connect_failed_timeout
             THEN Return(<<FALSE, <<"connection refused">> >>)
             ELSE Raise("RuntimeError",
                        <<"Unclear result from netcat to ">> \o ip_addr \o <<" tcp/", str(port), ":", NL>>
                            \o stdouterr_text)

(***************************************************************************)
(* The environment of one probe attempt: what running the ncat command     *)
(* (through fabric's run(), or subprocess for the local host) gives.       *)
(***************************************************************************)
LOCALHOST == <<"127.0.0.1">>

Output(code, text) == [kind |-> "output", return_code |-> code, text |-> text, exc |-> "", msg |-> <<>>]
Exception(e, m) == [kind |-> "exception", return_code |-> 0, text |-> <<>>, exc |-> e, msg |-> m]

\* the exceptions the remote path can raise: NetworkError and CommandTimeout from run(),
\* socket.error (class name "error") from the transport, TimeoutException from time_limit
TransportExceptions ==
    { Exception("NetworkError", <<"Timed out trying to connect">>),
      Exception("error", <<"Connection reset by peer">>),
      Exception("TimeoutException", <<"Python code ran for too long">>),
      Exception("CommandTimeout", <<"Command failed to finish in ", str(ncat_timeout), " seconds">>) }

ProbeOutputs ==
    { Output(1, <<MARK_IDLE, NL>>),
      Output(1, <<MARK_REFUSED, NL>>),
      Output(1, <<MARK_TIMEOUT, NL>>),
      Output(1, <<MARK_IDLE, NL, MARK_REFUSED>>),
      Output(0, <<MARK_IDLE, NL>>) }

AllRaw == ProbeOutputs \cup TransportExceptions

\* what the environment can answer to a probe started on host_string
RawFor(host_string) ==
    IF host_string = LOCALHOST THEN {r \in world : r.kind = "output"} ELSE world

\* ip_addr[0:5] == 'fe80:'
IsLinkScope(ip_addr) == ip_addr # <<>> /\ Head(ip_addr) = "fe80:"

verify_via_fabric_source_can_connect_to_port(host_string, ip_addr, port, raw) ==
    IF IsLinkScope(ip_addr) THEN Return(None)
    ELSE IF raw.kind = "exception" THEN Raise(raw.exc, raw.msg)
    ELSE classify_output(ip_addr, port, raw.return_code, raw.text)

(***************************************************************************)
(* dests_access_test_via_fabric: one iteration of its loop                 *)
(***************************************************************************)
\* str.replace(old, new) for one-token old and new
replace(s, old, new) == [i \in 1..Len(s) |-> IF s[i] = old THEN new ELSE s[i]]

\* mutant: the except clause forgets NetworkError
CaughtNarrow == {"RuntimeError", "error", "TimeoutException", "CommandTimeout"}

\* mutant: the except clause forgets TimeoutException
CaughtNoTimeout == {"RuntimeError", "NetworkError", "error", "CommandTimeout"}

\* the except clause of line 126
Caught == {"RuntimeError", "NetworkError", "error", "TimeoutException", "CommandTimeout"}

\* what one iteration does with destination dest when the environment answers raw at time
\* test_time: the entry it appends, or the exception that leaves the function
loop_body(host_string, dest, raw, test_time) ==
    LET dest_host == dest[1]
        port == dest[2]
        r == verify_via_fabric_source_can_connect_to_port(host_string, dest_host, port, raw)
    IN  IF r.kind = "return" /\ r.val = None
        THEN \* (connect_succ,additional) = None
             [kind |-> "raise", exc |-> "TypeError",
              entry |-> <<"'NoneType' object is not iterable">>]
        ELSE IF r.kind = "return"
        THEN [kind |-> "entry", exc |-> "",
              entry |-> <<dest_host, port, IF r.val[1] THEN "success" ELSE "failure",
                          r.val[2], <<test_time>> >>]
        ELSE IF r.exc \in Caught
        THEN LET message == <<r.exc, ": ">> \o r.msg
                 replaced == replace(message, NL, "\\n")   \* computed and dropped (line 129)
             IN  [kind |-> "entry", exc |-> "",
                  entry |-> <<dest_host, port, "error", message, <<test_time>> >>]
        ELSE [kind |-> "raise", exc |-> r.exc, entry |-> r.msg]

Task(status, res, exc) == [status |-> status, results |-> res, exc |-> exc]

\* no probe call is in progress and no alarm is pending
NoAttempt == [phase |-> "none", alarm |-> 0, elapsed |-> 0, deadline |-> 0,
              cmd_timeout |-> 0, wait |-> 0]

\* mutant: the task writes each entry to the results file itself
RunnerStepWrites(h) ==
    /\ pc = "executing"
    /\ h \in DOMAIN runner
    /\ runner[h].status = "running"
    /\ Len(runner[h].results) < Len(destinations)
    /\ \E raw \in RawFor(h) :
          LET dest == destinations[Len(runner[h].results) + 1]
              o == loop_body(h, dest, raw, now)
          IN  /\ runner' = [runner EXCEPT ![h] =
                     IF o.kind = "entry"
                     THEN Task("running", Append(@.results, o.entry), <<>>)
                     ELSE Task("raised", @.results, o.entry)]
              /\ results_file' = Append(results_file, <<"-1", h, dest[1], str(dest[2])>>)
    /\ UNCHANGED <<sources_file, destinations, ledger_file, pc, now,
                   already_tested_sources, sources_to_use, result_dict, todo, results,
                   exit_code, world, hist, cl_in, cl_out, attempt>>

\* one pass of the for loop of the task running on host h
RunnerStep(h) ==
    /\ pc = "executing"
    /\ h \in DOMAIN runner
    /\ runner[h].status = "running"
    /\ Len(runner[h].results) < Len(destinations)
    /\ \E raw \in RawFor(h) :
          LET dest == destinations[Len(runner[h].results) + 1]
              o == loop_body(h, dest, raw, now)
          IN  runner' = [runner EXCEPT ![h] =
                  IF o.kind = "entry"
                  THEN Task("running", Append(@.results, o.entry), <<>>)
                  ELSE Task("raised", @.results, o.entry)]
    /\ UNCHANGED <<sources_file, destinations, ledger_file, results_file, pc, now,
                   already_tested_sources, sources_to_use, result_dict, todo, results,
                   exit_code, world, hist, cl_in, cl_out, attempt>>

\* the loop is over: return results
RunnerReturn(h) ==
    /\ pc = "executing"
    /\ h \in DOMAIN runner
    /\ runner[h].status = "running"
    /\ Len(runner[h].results) = Len(destinations)
    /\ runner' = [runner EXCEPT ![h].status = "returned"]
    /\ UNCHANGED <<sources_file, destinations, ledger_file, results_file, pc, now,
                   already_tested_sources, sources_to_use, result_dict, todo, results,
                   exit_code, world, hist, cl_in, cl_out, attempt>>

\* fabric could not run the task on h at all
RunnerNoRun(h) ==
    /\ pc = "executing"
    /\ h \in DOMAIN runner
    /\ runner[h].status = "running"
    /\ runner[h].results = <<>>
    /\ runner' = [runner EXCEPT ![h].status = "norun"]
    /\ UNCHANGED <<sources_file, destinations, ledger_file, results_file, pc, now,
                   already_tested_sources, sources_to_use, result_dict, todo, results,
                   exit_code, world, hist, cl_in, cl_out, attempt>>

(***************************************************************************)
(* The probe call in time: time_limit arms SIGALRM on entry (line 30) and  *)
(* cancels it on exit (line 34); the call blocks in run() or, for the      *)
(* local host, in subprocess.check_output, which no alarm covers.          *)
(***************************************************************************)
\* signal.alarm(seconds): the seconds until SIGALRM
time_limit_enter(seconds) == seconds

\* mutant: leaving the block does not cancel the alarm
time_limit_exit_leak(alarm) == alarm

\* finally: signal.alarm(0)
time_limit_exit(alarm) == 0

TimeoutRaised == Exception("TimeoutException", <<"Python code ran for too long">>)

NextDest(h) == destinations[Len(runner[h].results) + 1]

Probing(h) ==
    /\ pc = "executing"
    /\ h \in DOMAIN runner
    /\ runner[h].status = "running"
    /\ Len(runner[h].results) < Len(destinations)

\* what the loop does once the probe call is over with raw
Record(h, raw) ==
    LET o == loop_body(h, NextDest(h), raw, now)
    IN  runner' = [runner EXCEPT ![h] =
            IF o.kind = "entry"
            THEN Task("running", Append(@.results, o.entry), <<>>)
            ELSE Task("raised", @.results, o.entry)]

\* lines 63-68: a link-scope destination: the call returns None at once
AttemptSkip(h) ==
    /\ Probing(h)
    /\ attempt.phase = "none"
    /\ IsLinkScope(NextDest(h)[1])
    /\ Record(h, TimeoutRaised)
    /\ UNCHANGED <<sources_file, destinations, ledger_file, results_file, pc, now,
                   already_tested_sources, sources_to_use, result_dict, todo, results,
                   exit_code, world, hist, cl_in, cl_out, attempt>>

\* lines 79-94: the command is built and started, under time_limit on a remote host
AttemptBegin(h) ==
    /\ Probing(h)
    /\ attempt.phase = "none"
    /\ ~IsLinkScope(NextDest(h)[1])
    /\ attempt' =
          IF h = LOCALHOST
          THEN [phase |-> "running", alarm |-> attempt.alarm, elapsed |-> 0, deadline |-> 0,
                cmd_timeout |-> 0, wait |-> access_check_connection_timeout]
          ELSE [phase |-> "running", alarm |-> time_limit_enter(overall_check_timeout),
                elapsed |-> 0, deadline |-> overall_check_timeout,
                cmd_timeout |-> ncat_timeout, wait |-> access_check_connection_timeout]
    /\ UNCHANGED <<sources_file, destinations, ledger_file, results_file, pc, now,
                   already_tested_sources, sources_to_use, runner, result_dict, todo, results,
                   exit_code, world, hist, cl_in, cl_out>>

\* a second passes while the call blocks
Tick(h) ==
    /\ Probing(h)
    /\ attempt.phase = "running"
    /\ attempt.alarm # 1
    /\ attempt.elapsed < MaxElapsed
    /\ attempt' = [attempt EXCEPT !.elapsed = @ + 1,
                                  !.alarm = IF @ > 0 THEN @ - 1 ELSE 0]
    /\ UNCHANGED <<sources_file, destinations, ledger_file, results_file, pc, now,
                   already_tested_sources, sources_to_use, runner, result_dict, todo, results,
                   exit_code, world, hist, cl_in, cl_out>>

\* lines 26-28: the last second of the alarm passes, the handler raises TimeoutException
\* in the blocked call; the finally clause runs and the loop handles the exception
AlarmExpires(h) ==
    /\ Probing(h)
    /\ attempt.phase = "running"
    /\ attempt.alarm = 1
    /\ Record(h, TimeoutRaised)
    /\ attempt' = [NoAttempt EXCEPT !.alarm = time_limit_exit(0)]
    /\ UNCHANGED <<sources_file, destinations, ledger_file, results_file, pc, now,
                   already_tested_sources, sources_to_use, result_dict, todo, results,
                   exit_code, world, hist, cl_in, cl_out>>

\* lines 84-96: the call is over by itself, with an output or an exception of the
\* transport; CommandTimeout comes only after ncat_timeout seconds
AttemptEnd(h) ==
    /\ Probing(h)
    /\ attempt.phase = "running"
    /\ \E raw \in RawFor(h) :
          /\ raw.exc # "TimeoutException"
          /\ raw.exc = "CommandTimeout" => attempt.elapsed >= ncat_timeout
          /\ Record(h, raw)
    /\ attempt' = [NoAttempt EXCEPT !.alarm = IF h = LOCALHOST THEN attempt.alarm
                                              ELSE time_limit_exit(attempt.alarm)]
    /\ UNCHANGED <<sources_file, destinations, ledger_file, results_file, pc, now,
                   already_tested_sources, sources_to_use, result_dict, todo, results,
                   exit_code, world, hist, cl_in, cl_out>>

(***************************************************************************)
(* The top-level script                                                    *)
(***************************************************************************)
Range(f) == {f[i] : i \in DOMAIN f}

\* the elements of seq that satisfy keep, in order
RECURSIVE Filter(_, _)
Filter(seq, keep) ==
    IF seq = <<>> THEN <<>>
    ELSE (IF Head(seq) \in keep THEN <<Head(seq)>> ELSE <<>>) \o Filter(Tail(seq), keep)

\* mutant: the ledger lines are not stripped of their line end
load_already_tested_raw(ledger) == {ledger[i] \o <<NL>> : i \in DOMAIN ledger}

\* lines 224-231: for already_line in alreadyin: already_tested_sources.add(already_line.rstrip())
load_already_tested(ledger) == {rstrip(ledger[i] \o <<NL>>) : i \in DOMAIN ledger}

\* line 237: source_line.rstrip().lstrip()
trim(source_line) == lstrip(rstrip(source_line \o <<NL>>))

\* mutant: no source is excluded
filter_sources_all(file, already) == [i \in DOMAIN file |-> trim(file[i])]

\* lines 234-241: the sources not tested before, in file order
filter_sources(file, already) ==
    LET trimmed == [i \in DOMAIN file |-> trim(file[i])]
    IN  Filter(trimmed, Range(trimmed) \ already)

NoTasks == [h \in {} |-> Task("running", <<>>, <<>>)]
NoDict == [h \in {} |-> [kind |-> "None", val |-> <<>>]]

\* mutant: no early return for an empty source list
StartRunAlwaysExecutes ==
    /\ pc \in {"idle", "done", "aborted"}
    /\ hist.run < MaxRuns
    /\ LET already == load_already_tested(ledger_file)
           srcs == filter_sources(sources_file, already)
       IN  /\ already_tested_sources' = already
           /\ sources_to_use' = srcs
           /\ runner' = [h \in Range(srcs) |-> Task("running", <<>>, <<>>)]
           /\ pc' = "executing"
    /\ result_dict' = NoDict
    /\ todo' = {}
    /\ results' = <<>>
    /\ exit_code' = None
    /\ now' = now + 1
    /\ hist' = [run |-> hist.run + 1, ledger0 |-> ledger_file, results0 |-> results_file,
                prev_sources |-> sources_to_use,
                prev |-> pc]
    /\ UNCHANGED <<sources_file, destinations, ledger_file, results_file, world, cl_in, cl_out, attempt>>

\* lines 215-156: load the files, filter the sources, enter dests_access_test_for_sources
\* and hand the tasks to fabric (or return [] at once when there is no source)
StartRun ==
    /\ pc \in {"idle", "done", "aborted"}
    /\ hist.run < MaxRuns
    /\ LET already == load_already_tested(ledger_file)
           srcs == filter_sources(sources_file, already)
       IN  /\ already_tested_sources' = already
           /\ sources_to_use' = srcs
           /\ runner' = [h \in Range(srcs) |-> Task("running", <<>>, <<>>)]
           /\ pc' = IF Len(srcs) = 0 THEN "saving" ELSE "executing"
    /\ result_dict' = NoDict
    /\ todo' = {}
    /\ results' = <<>>
    /\ exit_code' = None
    /\ now' = now + 1
    /\ hist' = [run |-> hist.run + 1, ledger0 |-> ledger_file, results0 |-> results_file,
                prev_sources |-> sources_to_use,
                prev |-> pc]
    /\ UNCHANGED <<sources_file, destinations, ledger_file, results_file, world, cl_in, cl_out, attempt>>

Finished == {"returned", "raised", "norun"}

\* line 156: execute() returns once every task is over.  A task that returned gives its
\* list, a task that never ran gives None, a task that raised gives None or the exception
\* object (iterating a Python 2 exception yields its args)
ExecuteReturn ==
    /\ pc = "executing"
    /\ \A h \in DOMAIN runner : runner[h].status \in Finished
    /\ \E lost \in SUBSET {h \in DOMAIN runner : runner[h].status = "raised"} :
          result_dict' = [h \in DOMAIN runner |->
              CASE runner[h].status = "returned" -> [kind |-> "list", val |-> runner[h].results]
                [] runner[h].status = "raised" /\ h \notin lost ->
                       [kind |-> "exception", val |-> <<runner[h].exc>>]
                [] OTHER -> [kind |-> "None", val |-> <<>>]]
    /\ todo' = DOMAIN runner
    /\ results' = <<>>
    /\ pc' = "collecting"
    /\ UNCHANGED <<sources_file, destinations, ledger_file, results_file, now,
                   already_tested_sources, sources_to_use, runner, exit_code, world, hist,
                   cl_in, cl_out, attempt>>

\* index of the first entry of test_results that has not 5 items, 0 when all have
FirstBad(test_results) ==
    IF \E j \in 1..Len(test_results) : Len(test_results[j]) # 5
    THEN CHOOSE j \in 1..Len(test_results) :
             /\ Len(test_results[j]) # 5
             /\ \A k \in 1..(j - 1) : Len(test_results[k]) = 5
    ELSE 0

errmsg(source_ip) ==
    <<"got None as output from fabric for ">> \o source_ip
        \o <<", meaning it wasn't able to run checks">>

\* mutant: a source without result gets no record
post_process_silent(source_ip, test_results, dests) ==
    IF test_results.kind # "None"
    THEN LET l == test_results.val
             bad == FirstBad(l)
             n == IF bad = 0 THEN Len(l) ELSE bad - 1
         IN  [exit |-> bad # 0,
              records |-> [k \in 1..n |->
                  <<-1, source_ip, l[k][1], l[k][2], l[k][3], l[k][4], l[k][5]>>]]
    ELSE [exit |-> FALSE, records |-> <<>>]

\* mutant: an entry that has not 5 items ends the list of its source without sys.exit
post_process_lenient(source_ip, test_results, dests) ==
    IF test_results.kind # "None"
    THEN LET l == test_results.val
             bad == FirstBad(l)
             n == IF bad = 0 THEN Len(l) ELSE bad - 1
         IN  [exit |-> FALSE,
              records |-> [k \in 1..n |->
                  <<-1, source_ip, l[k][1], l[k][2], l[k][3], l[k][4], l[k][5]>>]]
    ELSE [exit |-> FALSE,
          records |-> [k \in 1..Len(dests) |->
              <<-1, source_ip, dests[k][1], dests[k][2], "error", errmsg(source_ip), None>>]]

\* mutant: the records of a source without result come in reverse destination order
post_process_reversed(source_ip, test_results, dests) ==
    IF test_results.kind # "None"
    THEN LET l == test_results.val
             bad == FirstBad(l)
             n == IF bad = 0 THEN Len(l) ELSE bad - 1
         IN  [exit |-> bad # 0,
              records |-> [k \in 1..n |->
                  <<-1, source_ip, l[k][1], l[k][2], l[k][3], l[k][4], l[k][5]>>]]
    ELSE [exit |-> FALSE,
          records |-> [k \in 1..Len(dests) |->
              <<-1, source_ip, dests[Len(dests) + 1 - k][1], dests[Len(dests) + 1 - k][2],
                "error", errmsg(source_ip), None>>]]

\* lines 165-177: the body of the post-processing loop for one key of result_dict: the
\* records it appends and whether it ends in sys.exit(1)
post_process(source_ip, test_results, dests) ==
    IF test_results.kind # "None"
    THEN LET l == test_results.val
             bad == FirstBad(l)
             n == IF bad = 0 THEN Len(l) ELSE bad - 1
         IN  [exit |-> bad # 0,
              records |-> [k \in 1..n |->
                  <<-1, source_ip, l[k][1], l[k][2], l[k][3], l[k][4], l[k][5]>>]]
    ELSE [exit |-> FALSE,
          records |-> [k \in 1..Len(dests) |->
              <<-1, source_ip, dests[k][1], dests[k][2], "error", errmsg(source_ip), None>>]]

\* what csv.writer puts in a row: str() of a number, the empty string for None
field(v) == IF v = None THEN <<>> ELSE <<str(v[1])>>

\* line 255
row(result) ==
    <<"-1", result[2], result[3], str(result[4]), result[5], result[6], field(result[7])>>

\* mutant: the records are written to the results file as they are collected
CollectAndWrite(source_ip) ==
    /\ pc = "collecting"
    /\ source_ip \in todo
    /\ LET p == post_process(source_ip, result_dict[source_ip], destinations)
       IN  /\ results' = results \o p.records
           /\ results_file' = results_file \o [k \in 1..Len(p.records) |-> row(p.records[k])]
           /\ todo' = todo \ {source_ip}
           /\ pc' = IF p.exit THEN "aborted"
                    ELSE IF todo' = {} THEN "saving" ELSE "collecting"
           /\ exit_code' = IF p.exit THEN <<1>> ELSE exit_code
    /\ UNCHANGED <<sources_file, destinations, ledger_file, now,
                   already_tested_sources, sources_to_use, runner, result_dict, world, hist,
                   cl_in, cl_out, attempt>>

\* lines 164-178: one pass of "for source_ip in result_dict" (a dict: any order)
Collect(source_ip) ==
    /\ pc = "collecting"
    /\ source_ip \in todo
    /\ LET p == post_process(source_ip, result_dict[source_ip], destinations)
       IN  /\ results' = results \o p.records
           /\ todo' = todo \ {source_ip}
           /\ pc' = IF p.exit THEN "aborted"
                    ELSE IF todo' = {} THEN "saving" ELSE "collecting"
           /\ exit_code' = IF p.exit THEN <<1>> ELSE exit_code
    /\ UNCHANGED <<sources_file, destinations, ledger_file, results_file, now,
                   already_tested_sources, sources_to_use, runner, result_dict, world, hist,
                   cl_in, cl_out, attempt>>

\* mutant: the ledger is appended to in the step that writes the results
SaveResultsAndLedger ==
    /\ pc = "saving"
    /\ results_file' = results_file \o [k \in 1..Len(results) |-> row(results[k])]
    /\ ledger_file' = ledger_file \o sources_to_use
    /\ pc' = "commit"
    /\ UNCHANGED <<sources_file, destinations, now, already_tested_sources,
                   sources_to_use, runner, result_dict, todo, results, exit_code, world,
                   hist, cl_in, cl_out, attempt>>

\* lines 246-255: append one row per result to the results file
SaveResults ==
    /\ pc = "saving"
    /\ results_file' = results_file \o [k \in 1..Len(results) |-> row(results[k])]
    /\ pc' = "commit"
    /\ UNCHANGED <<sources_file, destinations, ledger_file, now, already_tested_sources,
                   sources_to_use, runner, result_dict, todo, results, exit_code, world,
                   hist, cl_in, cl_out, attempt>>

\* lines 259-261: append the dispatch list to the ledger file; the script ends
CommitLedger ==
    /\ pc = "commit"
    /\ ledger_file' = ledger_file \o sources_to_use
    /\ pc' = "done"
    /\ exit_code' = <<0>>
    /\ UNCHANGED <<sources_file, destinations, results_file, now, already_tested_sources,
                   sources_to_use, runner, result_dict, todo, results, world, hist,
                   cl_in, cl_out, attempt>>

(***************************************************************************)
(* Specification of the whole script, run up to MaxRuns times on the same  *)
(* files                                                                   *)
(***************************************************************************)
\* the sequences over S of length at most n
BSeq(S, n) == UNION {[1..k -> S] : k \in 0..n}

SourceLines == {<<"a">>, <<"b">>, <<BLANK, "a", BLANK>>}
LedgerInits == {<<>>, << <<"a">> >>, << <<"b", BLANK>> >>}
D1 == << <<"d1">>, 80>>
D2 == << <<"d2">>, 443>>
DLL == << <<"fe80:", ":1">>, 80>>
Dests == {D1, D2, DLL}

\* the outcomes the network shows in one behaviour of the whole script
Worlds ==
    { {Output(1, <<MARK_IDLE, NL>>)},
      {Output(1, <<MARK_REFUSED, NL>>)},
      {Output(1, <<MARK_IDLE, NL, MARK_REFUSED>>)},
      {Output(0, <<MARK_IDLE, NL>>)},
      {Exception("TimeoutException", <<"Python code ran for too long">>)},
      {Output(1, <<MARK_IDLE, NL>>), Exception("NetworkError", <<"Timed out trying to connect">>)} }

ClUnset == [kind |-> "unset", exc |-> "", val |-> <<>>, msg |-> <<>>]
ClIdle == cl_in = [return_code |-> 0, text |-> <<>>] /\ cl_out = ClUnset

Init ==
    /\ sources_file \in BSeq(SourceLines, MaxSources)
    /\ destinations \in BSeq(Dests, MaxDests)
    /\ ledger_file \in LedgerInits
    /\ results_file = <<>>
    /\ pc = "idle"
    /\ now = 0
    /\ already_tested_sources = {}
    /\ sources_to_use = <<>>
    /\ runner = NoTasks
    /\ result_dict = NoDict
    /\ todo = {}
    /\ results = <<>>
    /\ exit_code = None
    /\ world \in Worlds
    /\ hist = [run |-> 0, ledger0 |-> ledger_file, results0 |-> <<>>, prev_sources |-> <<>>,
               prev |-> "idle"]
    /\ attempt = NoAttempt
    /\ ClIdle

Next ==
    \/ StartRun
    \/ \E h \in DOMAIN runner : RunnerStep(h)
    \/ \E h \in DOMAIN runner : RunnerReturn(h)
    \/ \E h \in DOMAIN runner : RunnerNoRun(h)
    \/ ExecuteReturn
    \/ \E h \in todo : Collect(h)
    \/ SaveResults
    \/ CommitLedger

Spec == Init /\ [][Next]_vars

(***************************************************************************)
(* Specification of one dests_access_test_via_fabric task on one host,     *)
(* with every raw outcome possible at every destination                    *)
(***************************************************************************)
RunnerHosts == {<<"a">>, LOCALHOST}

InitRunner ==
    /\ \E h \in RunnerHosts :
          /\ sources_file = <<h>>
          /\ sources_to_use = <<h>>
          /\ runner = [x \in {h} |-> Task("running", <<>>, <<>>)]
    /\ destinations \in BSeq(Dests, MaxDests)
    /\ ledger_file = <<>>
    /\ results_file = <<>>
    /\ pc = "executing"
    /\ now = 1
    /\ already_tested_sources = {}
    /\ result_dict = NoDict
    /\ todo = {}
    /\ results = <<>>
    /\ exit_code = None
    /\ world = AllRaw
    /\ hist = [run |-> 1, ledger0 |-> <<>>, results0 |-> <<>>, prev_sources |-> <<>>,
               prev |-> "idle"]
    /\ attempt = NoAttempt
    /\ ClIdle

NextRunner ==
    \/ \E h \in DOMAIN runner : RunnerStep(h)
    \/ \E h \in DOMAIN runner : RunnerReturn(h)

SpecRunner == InitRunner /\ [][NextRunner]_vars

(***************************************************************************)
(* Specification of one task on one host with the probe calls in time      *)
(***************************************************************************)
TimedWorld ==
    { Output(1, <<MARK_IDLE, NL>>),
      Output(1, <<MARK_REFUSED, NL>>),
      Output(1, <<MARK_IDLE, NL, MARK_REFUSED>>),
      Exception("NetworkError", <<"Timed out trying to connect">>),
      Exception("CommandTimeout", <<"Command failed to finish in ", str(ncat_timeout), " seconds">>) }

InitTimed ==
    /\ \E h \in RunnerHosts :
          /\ sources_file = <<h>>
          /\ sources_to_use = <<h>>
          /\ runner = [x \in {h} |-> Task("running", <<>>, <<>>)]
    /\ destinations \in BSeq(Dests, MaxDests)
    /\ ledger_file = <<>>
    /\ results_file = <<>>
    /\ pc = "executing"
    /\ now = 1
    /\ already_tested_sources = {}
    /\ result_dict = NoDict
    /\ todo = {}
    /\ results = <<>>
    /\ exit_code = None
    /\ world = TimedWorld
    /\ hist = [run |-> 1, ledger0 |-> <<>>, results0 |-> <<>>, prev_sources |-> <<>>,
               prev |-> "idle"]
    /\ attempt = NoAttempt
    /\ ClIdle

NextTimed ==
    \/ \E h \in DOMAIN runner : AttemptSkip(h)
    \/ \E h \in DOMAIN runner : AttemptBegin(h)
    \/ \E h \in DOMAIN runner : Tick(h)
    \/ \E h \in DOMAIN runner : AlarmExpires(h)
    \/ \E h \in DOMAIN runner : AttemptEnd(h)
    \/ \E h \in DOMAIN runner : RunnerReturn(h)

SpecTimed == InitTimed /\ [][NextTimed]_vars

(***************************************************************************)
(* Specification of the classification of one probe output                 *)
(***************************************************************************)
Tokens == {MARK_TIMEOUT, MARK_OP_TIMEOUT, MARK_REFUSED, MARK_IDLE, NOISE, TEXT, BLANK, NL}
ReturnCodes == {0, 1}

InitClassify ==
    /\ cl_in \in [return_code : ReturnCodes, text : BSeq(Tokens, MaxTextLen)]
    /\ cl_out = ClUnset
    /\ sources_file = <<>>
    /\ destinations = <<>>
    /\ ledger_file = <<>>
    /\ results_file = <<>>
    /\ pc = "probe"
    /\ now = 0
    /\ already_tested_sources = {}
    /\ sources_to_use = <<>>
    /\ runner = NoTasks
    /\ result_dict = NoDict
    /\ todo = {}
    /\ results = <<>>
    /\ exit_code = None
    /\ world = {}
    /\ hist = [run |-> 0, ledger0 |-> <<>>, results0 |-> <<>>, prev_sources |-> <<>>,
               prev |-> "idle"]
    /\ attempt = NoAttempt

\* lines 99-116 applied to the output under test, for destination d1 tcp/80 from host a
Classify ==
    /\ pc = "probe"
    /\ cl_out = ClUnset
    /\ cl_out' = verify_via_fabric_source_can_connect_to_port(
                     <<"a">>, D1[1], D1[2], Output(cl_in.return_code, cl_in.text))
    /\ UNCHANGED <<sources_file, destinations, ledger_file, results_file, pc, now,
                   already_tested_sources, sources_to_use, runner, result_dict, todo, results,
                   exit_code, world, hist, cl_in, attempt>>

NextClassify == Classify

SpecClassify == InitClassify /\ [][NextClassify]_vars

(***************************************************************************)
(* Properties                                                              *)
(***************************************************************************)
IsPrefix(s, t) == Len(s) <= Len(t) /\ SubSeq(t, 1, Len(s)) = s

\* the records of source h among rs, in order
RECURSIVE BySource(_, _)
BySource(rs, h) ==
    IF rs = <<>> THEN <<>>
    ELSE (IF Head(rs)[2] = h THEN <<Head(rs)>> ELSE <<>>) \o BySource(Tail(rs), h)

\* the run returned from dests_access_test_for_sources
Returned == pc \in {"saving", "commit", "done"}
\* the run wrote its results
Written == pc \in {"commit", "done"}
\* the rows the results file gained in this run
NewRows == SubSeq(results_file, Len(hist.results0) + 1, Len(results_file))
\* the lines the ledger file gained in this run
NewLedger == SubSeq(ledger_file, Len(hist.ledger0) + 1, Len(ledger_file))
InRun == pc \in {"executing", "collecting", "saving", "commit", "done", "aborted"}

\* C1 as stated: the result set returned and written has exactly |S_filtered| x |D|
\* records, S_filtered being the filtered source list with its repetitions.
C1_Original ==
    /\ Returned => Len(results) = Len(sources_to_use) * Len(destinations)
    /\ Written => Len(NewRows) = Len(sources_to_use) * Len(destinations)

\* C1 amended: whenever dests_access_test_for_sources returns, the result set it returns,
\* which is then written to the results file, has exactly n x |D| records, n being the
\* number of distinct sources of the filtered list: for every distinct source the records
\* of that source are one per destination of D, in the order of D, also for a source whose
\* dispatch gave no result.
C1_Amended ==
    /\ Returned =>
          /\ Len(results) = Cardinality(Range(sources_to_use)) * Len(destinations)
          /\ \A h \in Range(sources_to_use) :
                LET rs == BySource(results, h)
                IN  /\ Len(rs) = Len(destinations)
                    /\ \A k \in 1..Len(rs) : <<rs[k][3], rs[k][4]>> = destinations[k]
          /\ \A k \in 1..Len(results) : results[k][2] \in Range(sources_to_use)
    /\ Written =>
          /\ Len(NewRows) = Cardinality(Range(sources_to_use)) * Len(destinations)
          /\ IsPrefix(hist.results0, results_file)

C1_Witness ==
    /\ pc = "done"
    /\ Len(sources_to_use) = 2
    /\ Cardinality(Range(sources_to_use)) = 1
    /\ Len(destinations) = 2
    /\ Len(NewRows) = 2
    /\ \E h \in DOMAIN result_dict : result_dict[h].kind = "None"

NoLinkScope == \A k \in 1..Len(destinations) : ~IsLinkScope(destinations[k][1])

\* C2: when every probe of the task returns a verdict or raises RuntimeError, NetworkError,
\* socket.error, TimeoutException or CommandTimeout, the task never raises, its list holds
\* one entry per destination probed so far, in the order of the destinations, and the list
\* it returns has one entry per destination.
C2_RunnerNeverRaises ==
    NoLinkScope =>
        \A h \in DOMAIN runner :
            LET t == runner[h]
            IN  /\ t.status # "raised"
                /\ Len(t.results) <= Len(destinations)
                /\ \A k \in 1..Len(t.results) :
                      /\ Len(t.results[k]) = 5
                      /\ <<t.results[k][1], t.results[k][2]>> = destinations[k]
                      /\ t.results[k][3] \in {"success", "failure", "error"}
                /\ t.status = "returned" => Len(t.results) = Len(destinations)

C2_Witness ==
    \E h \in DOMAIN runner :
        /\ runner[h].status = "returned"
        /\ Len(runner[h].results) = 2
        /\ runner[h].results[1][3] = "error"
        /\ runner[h].results[1][4][1] = "NetworkError"
        /\ runner[h].results[2][3] = "success"

\* C3 as stated: a link-local destination is never an error record, nothing propagates out
\* of the task because of it, and the task still returns a list in which every other
\* destination is recorded.
C3_LinkLocalSkipped ==
    \A h \in DOMAIN runner :
        LET t == runner[h]
        IN  /\ t.status # "raised"
            /\ \A k \in 1..Len(t.results) :
                  IsLinkScope(t.results[k][1]) => t.results[k][3] # "error"

\* the invariants of the file writes: the results file is untouched until the run has
\* returned its result list and then gains the rows of that list; the ledger file is
\* untouched until the rows are written
C4_Rows == [k \in 1..Len(results) |-> row(results[k])]

\* C4: in a run that completes normally the ledger is appended to only after the results
\* file holds all the records of the run, and what is appended is the dispatch list
\* sources_to_use, one line per source, whatever the results of the sources were.
C4_LedgerAfterResults ==
    /\ pc \in {"executing", "collecting", "saving", "aborted"} =>
          ledger_file = hist.ledger0 /\ results_file = hist.results0
    /\ pc = "commit" =>
          ledger_file = hist.ledger0 /\ results_file = hist.results0 \o C4_Rows
    /\ pc = "done" =>
          /\ results_file = hist.results0 \o C4_Rows
          /\ ledger_file = hist.ledger0 \o sources_to_use

C4_Witness ==
    /\ pc = "done"
    /\ Len(NewLedger) = 2
    /\ Len(NewRows) >= 2
    /\ \E k \in 1..Len(results) : results[k][5] = "error"
    /\ \E k \in 1..Len(results) : results[k][5] = "success"

\* C5 as stated: a source for which execute() gave no result (None) is not appended to the
\* ledger at the end of the run.
C5_NoResultNotInLedger ==
    pc = "done" =>
        \A h \in DOMAIN result_dict :
            result_dict[h].kind = "None" => h \notin Range(NewLedger)

\* C6: a run started after a run that completed normally, on the same sources file and the
\* ledger the first run left, dispatches nothing, produces no record and leaves both files
\* as they were.
C6_IdempotentSkip ==
    (hist.run >= 2 /\ hist.prev = "done" /\ InRun) =>
        /\ sources_to_use = <<>>
        /\ DOMAIN runner = {}
        /\ results = <<>>
        /\ pc \in {"saving", "commit", "done"}
        /\ results_file = hist.results0
        /\ ledger_file = hist.ledger0

C6_Witness ==
    /\ hist.run = 2
    /\ hist.prev = "done"
    /\ pc = "done"
    /\ Len(sources_file) = 2
    /\ Len(ledger_file) >= 2
    /\ results_file # <<>>

\* C7: the ledger file only grows (every step leaves the old file as a prefix of the new),
\* and a source that was in the ledger when the run loaded it is neither dispatched nor
\* among the lines the run appends.
C7_LedgerMonotonic ==
    /\ [][IsPrefix(ledger_file, ledger_file')]_vars
    /\ [](InRun =>
            /\ IsPrefix(hist.ledger0, ledger_file)
            /\ already_tested_sources = load_already_tested(hist.ledger0)
            /\ Range(sources_to_use) \cap already_tested_sources = {}
            /\ DOMAIN runner \cap already_tested_sources = {}
            /\ Range(NewLedger) \cap already_tested_sources = {})

C7_Witness ==
    /\ pc = "done"
    /\ hist.ledger0 # <<>>
    /\ NewLedger # <<>>
    /\ \E i \in DOMAIN sources_file : trim(sources_file[i]) \in already_tested_sources

Malformed(rd) == \E j \in 1..Len(rd.val) : Len(rd.val[j]) # 5

\* C8: the run aborts with exit code 1 exactly at a result entry that has not 5 items:
\* the step that aborts visits a source whose result has such an entry, collects the
\* entries before it and nothing after, and touches no file; a run that does not meet
\* such an entry ends with exit code 0, whatever else failed (a source with no result
\* included).
C8_MalformedIsFatal ==
    /\ [][pc' = "aborted" /\ pc # "aborted" =>
             \E h \in todo :
                /\ Malformed(result_dict[h])
                /\ LET l == result_dict[h].val
                       j == FirstBad(l)
                   IN  /\ j >= 1
                       /\ Len(results') = Len(results) + j - 1
                       /\ IsPrefix(results, results')
                /\ exit_code' = <<1>>
                /\ todo' = todo \ {h}
                /\ results_file' = results_file
                /\ ledger_file' = ledger_file]_vars
    /\ [][(pc = "collecting" /\ pc' # "aborted") =>
             \A h \in todo \ todo' : ~Malformed(result_dict[h])]_vars
    /\ [](pc = "aborted" => exit_code = <<1>>)
    /\ [](pc = "done" =>
             /\ exit_code = <<0>>
             /\ \A h \in DOMAIN result_dict : ~Malformed(result_dict[h]))
    /\ [](pc \in {"executing", "collecting", "saving", "commit"} => exit_code = None)

C8_Witness ==
    /\ pc = "aborted"
    /\ exit_code = <<1>>
    /\ results # <<>>
    /\ todo = {}

\* the step of the post-processing loop that visits source h
Visits(h) == pc = "collecting" /\ h \in todo /\ h \notin todo'

\* C9: visiting a source whose result is None appends, after the records collected so far,
\* exactly one record per destination of D, in the order of D: subprocess id -1, the
\* source, the destination, "error", the fixed message and a None timestamp; the run
\* is not aborted by it.
C9_NoResultSynthesized ==
    [][\A h \in todo :
          (Visits(h) /\ result_dict[h].kind = "None") =>
              /\ results' = results \o
                    [k \in 1..Len(destinations) |->
                        <<-1, h, destinations[k][1], destinations[k][2], "error",
                          <<"got None as output from fabric for ">> \o h
                              \o <<", meaning it wasn't able to run checks">>, None>>]
              /\ pc' # "aborted"
              /\ exit_code' = None]_vars

C9_Witness ==
    /\ pc = "done"
    /\ Len(destinations) = 2
    /\ destinations[1] # destinations[2]
    /\ \E h1, h2 \in DOMAIN result_dict :
          /\ result_dict[h1].kind = "None"
          /\ result_dict[h2].kind = "list"
          /\ results[1][2] = h2
          /\ results[3][2] = h1
          /\ results[3][7] = None
          /\ results[1][7] # None

\* C10 reads the markers off the text itself: marker m is a whole line of text when it
\* starts the text or follows a newline and only blanks follow it up to the line end
WholeLine(text, m) ==
    \E i \in 1..Len(text) :
        /\ text[i] = m
        /\ (i = 1 \/ text[i - 1] = NL)
        /\ \E j \in i..Len(text) :
              /\ \A k \in (i + 1)..j : text[k] = BLANK
              /\ (j = Len(text) \/ text[j + 1] = NL)

C10_Reachable == WholeLine(cl_in.text, MARK_IDLE)
C10_Timeout == WholeLine(cl_in.text, MARK_TIMEOUT) \/ WholeLine(cl_in.text, MARK_OP_TIMEOUT)
C10_Refused == WholeLine(cl_in.text, MARK_REFUSED)

\* C10: exit code 0 is an error whatever the text; with a nonzero exit code the reachable
\* marker alone is success without detail, the timeout marker alone is failure
\* "connection timeout", the refused marker alone is failure "connection refused", and
\* no marker, or markers of two or three categories, is an error; a marker counts only
\* as a whole line, trailing whitespace aside.
C10_Classifier ==
    cl_out # ClUnset =>
        IF cl_in.return_code = 0
            THEN cl_out.kind = "raise" /\ cl_out.exc = "RuntimeError"
        ELSE IF C10_Reachable /\ ~C10_Timeout /\ ~C10_Refused
            THEN cl_out.kind = "return" /\ cl_out.val = <<TRUE, None>>
        ELSE IF C10_Timeout /\ ~C10_Reachable /\ ~C10_Refused
            THEN cl_out.kind = "return" /\ cl_out.val = <<FALSE, <<"connection timeout">> >>
        ELSE IF C10_Refused /\ ~C10_Reachable /\ ~C10_Timeout
            THEN cl_out.kind = "return" /\ cl_out.val = <<FALSE, <<"connection refused">> >>
        ELSE cl_out.kind = "raise" /\ cl_out.exc = "RuntimeError"

C10_Witness ==
    /\ cl_out.kind = "raise"
    /\ cl_in.return_code = 1
    /\ C10_Reachable /\ C10_Refused
    /\ Len(cl_in.text) >= 2
    /\ cl_in.text[2] = BLANK

\* the text without its lines that contain the noise fragment
RECURSIVE C11_DropNoise(_)
C11_DropNoise(ls) ==
    IF ls = <<>> THEN <<>>
    ELSE (IF Contains(Head(ls), NOISE) THEN <<>> ELSE Head(ls)) \o C11_DropNoise(Tail(ls))

C11_Base == C11_DropNoise(StringIO(cl_in.text))

\* success, failure with its reason, or error
C11_Verdict(out) == IF out.kind = "raise" THEN <<"error">> ELSE out.val

\* C11: a probe output gets the verdict of the same output without its noise lines,
\* wherever the noise lines stand; when exactly one marker category is a line of the rest
\* that is the verdict of that marker, and when no marker is, it is an error.
C11_NoiseIgnored ==
    cl_out # ClUnset =>
        /\ C11_Verdict(cl_out) =
              C11_Verdict(verify_via_fabric_source_can_connect_to_port(
                              <<"a">>, D1[1], D1[2], Output(cl_in.return_code, C11_Base)))
        /\ (cl_in.return_code # 0 /\ WholeLine(C11_Base, MARK_IDLE)
                /\ ~WholeLine(C11_Base, MARK_TIMEOUT) /\ ~WholeLine(C11_Base, MARK_OP_TIMEOUT)
                /\ ~WholeLine(C11_Base, MARK_REFUSED))
              => cl_out.kind = "return" /\ cl_out.val = <<TRUE, None>>
        /\ (cl_in.return_code # 0 /\ WholeLine(C11_Base, MARK_REFUSED)
                /\ ~WholeLine(C11_Base, MARK_TIMEOUT) /\ ~WholeLine(C11_Base, MARK_OP_TIMEOUT)
                /\ ~WholeLine(C11_Base, MARK_IDLE))
              => cl_out.kind = "return" /\ cl_out.val = <<FALSE, <<"connection refused">> >>
        /\ (\A m \in {MARK_IDLE, MARK_TIMEOUT, MARK_OP_TIMEOUT, MARK_REFUSED} :
                ~WholeLine(C11_Base, m))
              => cl_out.kind = "raise"

C11_Witness ==
    /\ cl_out.kind = "return"
    /\ cl_out.val = <<TRUE, None>>
    /\ cl_in.text = <<NOISE, NL, MARK_IDLE, NL, NOISE>>

\* C12 as stated: the detail of every error entry of the task is "<ExceptionKind>: <message>"
\* with each newline replaced by backslash-n, so it holds no newline.
C12_DetailSingleLine ==
    \A h \in DOMAIN runner :
        \A k \in 1..Len(runner[h].results) :
            LET e == runner[h].results[k]
            IN  e[3] = "error" =>
                    /\ Len(e[4]) >= 2
                    /\ e[4][1] \in Caught
                    /\ e[4][2] = ": "
                    /\ ~Contains(e[4], NL)

\* entry e records a TimeoutException
IsTimeoutEntry(e) == e[4] # None /\ e[4][1] = "TimeoutException"

\* the task of h appends an entry in this step
Appends(h) == Len(runner'[h].results) = Len(runner[h].results) + 1

\* C13: when the alarm of a remote probe call expires the task records "error" for the
\* destination of that call, keeps the entries it had and goes on: it does not raise, it
\* returns one entry per destination, and every call it starts afterwards is armed with
\* the full whole-attempt timeout.
C13_TimeoutIsError ==
    /\ [](\A h \in DOMAIN runner :
            /\ \A k \in 1..Len(runner[h].results) :
                  IsTimeoutEntry(runner[h].results[k]) =>
                      /\ runner[h].results[k][3] = "error"
                      /\ <<runner[h].results[k][1], runner[h].results[k][2]>> = destinations[k]
            /\ (attempt.phase = "running" /\ h # LOCALHOST) =>
                  /\ attempt.alarm > 0
                  /\ attempt.alarm + attempt.elapsed = overall_check_timeout
            /\ NoLinkScope =>
                  /\ runner[h].status # "raised"
                  /\ runner[h].status = "returned" =>
                        Len(runner[h].results) = Len(destinations))
    /\ [][\A h \in DOMAIN runner :
            (Appends(h) /\ IsTimeoutEntry(runner'[h].results[Len(runner'[h].results)])) =>
                /\ attempt.elapsed + 1 = overall_check_timeout
                /\ IsPrefix(runner[h].results, runner'[h].results)
                /\ runner'[h].results[Len(runner'[h].results)][3] = "error"
                /\ runner'[h].status = "running"]_vars

C13_Witness ==
    \E h \in DOMAIN runner :
        /\ Len(runner[h].results) = 1
        /\ IsTimeoutEntry(runner[h].results[1])
        /\ runner[h].results[1][3] = "error"
        /\ attempt.phase = "running"
        /\ attempt.elapsed = 0
        /\ attempt.alarm = overall_check_timeout

\* C14 as stated: no probe call, remote or local, is still blocked after the whole-attempt
\* timeout.
C14_AttemptBounded ==
    attempt.phase = "running" => attempt.elapsed <= overall_check_timeout

\* C17: a remote probe call runs with ncat -w 2, a command timeout of 2 + 4 = 6 and an
\* alarm of env.timeout + 7 + 6 = 16 seconds: probe-internal < shell-command <
\* whole-attempt.
C17_TimeoutsNested ==
    \A h \in DOMAIN runner :
        (attempt.phase = "running" /\ h # LOCALHOST) =>
            /\ attempt.cmd_timeout = attempt.wait + 4
            /\ attempt.deadline = env_timeout + 7 + attempt.cmd_timeout
            /\ attempt.wait < attempt.cmd_timeout
            /\ attempt.cmd_timeout < attempt.deadline
            /\ <<attempt.wait, attempt.cmd_timeout, attempt.deadline>> = <<2, 6, 16>>
            /\ attempt.alarm + attempt.elapsed = attempt.deadline

C17_Witness ==
    /\ attempt.phase = "running"
    /\ attempt.deadline = 16
    /\ attempt.elapsed = 6
    /\ attempt.alarm = 10

\* C18: no alarm is pending outside a time_limit block: none when the task builds the
\* record of a probe call, starts the next call or returns, whether the block was left
\* normally or by an exception, and none during a local call; a TimeoutException is
\* recorded only by a step that leaves an active time_limit block.
C18_AlarmCancelled ==
    /\ [](attempt.phase = "none" => attempt.alarm = 0)
    /\ [](attempt.deadline = 0 => attempt.alarm = 0)
    /\ [][\A h \in DOMAIN runner :
            (Appends(h) /\ IsTimeoutEntry(runner'[h].results[Len(runner'[h].results)])) =>
                /\ attempt.phase = "running"
                /\ attempt.deadline > 0
                /\ attempt.alarm > 0
                /\ attempt'.alarm = 0]_vars

C18_Witness ==
    \E h \in DOMAIN runner :
        /\ Len(runner[h].results) = 2
        /\ IsTimeoutEntry(runner[h].results[1])
        /\ runner[h].results[2][3] = "success"
        /\ attempt.phase = "none"
        /\ attempt.alarm = 0

\* C15: the results file and the ledger file change only in the saving and commit steps
\* of the top-level script, when every task is over; while the tasks run, a step changes
\* the state of one task and nothing else: no file, no other task, nothing the top level
\* holds.
C15_FilesTopLevelOnly ==
    /\ [][(results_file' # results_file \/ ledger_file' # ledger_file) =>
             /\ pc \in {"saving", "commit"}
             /\ \A h \in DOMAIN runner : runner[h].status \in Finished]_vars
    /\ [][(pc = "executing" /\ pc' = "executing") =>
             /\ \E h \in DOMAIN runner : \A g \in DOMAIN runner \ {h} : runner'[g] = runner[g]
             /\ UNCHANGED <<sources_file, destinations, ledger_file, results_file,
                            already_tested_sources, sources_to_use, result_dict, todo,
                            results, exit_code>>]_vars
    /\ [](pc = "executing" => results_file = hist.results0 /\ ledger_file = hist.ledger0)

C15_Witness ==
    /\ pc = "executing"
    /\ Len(destinations) = 2
    /\ Cardinality(DOMAIN runner) = 2
    /\ \A h \in DOMAIN runner :
          runner[h].status = "running" /\ Len(runner[h].results) = 1
    /\ results_file = hist.results0
    /\ ledger_file = hist.ledger0

\* C16: a run whose filtered source list is empty starts no task, collects nothing, adds
\* no row to the results file and no line to the ledger file, and ends with exit code 0.
C16_EmptyDispatch ==
    (InRun /\ sources_to_use = <<>>) =>
        /\ pc \in {"saving", "commit", "done"}
        /\ DOMAIN runner = {}
        /\ DOMAIN result_dict = {}
        /\ results = <<>>
        /\ results_file = hist.results0
        /\ ledger_file = hist.ledger0
        /\ exit_code = IF pc = "done" THEN <<0>> ELSE None

C16_Witness ==
    /\ hist.run = 1
    /\ pc = "done"
    /\ sources_file # <<>>
    /\ sources_to_use = <<>>
    /\ exit_code = <<0>>

\* C19: a run that aborts on a malformed entry leaves the results file and the ledger
\* file as they were when it started, whatever it had collected, and the next run
\* dispatches the same sources again.
C19_AbortLeavesFiles ==
    /\ pc = "aborted" =>
          /\ results_file = hist.results0
          /\ ledger_file = hist.ledger0
          /\ sources_to_use # <<>>
    /\ (hist.prev = "aborted" /\ InRun) =>
          /\ sources_to_use = hist.prev_sources
          /\ DOMAIN runner = Range(hist.prev_sources)

C19_Witness ==
    /\ hist.run = 2
    /\ hist.prev = "aborted"
    /\ pc = "aborted"
    /\ results # <<>>
    /\ Len(sources_to_use) = 2

====
